---------------------------- MODULE Spec2Model ----------------------------
(***************************************************************************)
(* Query routing and forecasting pipeline of the Zeno agent                *)
(* (src/zeno_agent).  Python strings are TLA+ strings; the text operations *)
(* the code uses (lower, strip, split, in, startswith, re.search,          *)
(* re.match) are operators computed character by character.  Every        *)
(* Python function is an operator that takes, besides its arguments, the   *)
(* behaviour of each collaborator it may call, and returns an outcome:     *)
(* the value returned or the exception raised, with the calls it made.     *)
(***************************************************************************)
EXTENDS Integers, Sequences, FiniteSets, TLC

VARIABLES
    pc,        \* the position in the operation being executed
    op,        \* the operation invoked: "route_and_reason", "query", ...
    query,     \* the string argument: the user query, or the text to parse
    file_ctx,  \* the file_context argument
    arg,       \* the argument that is no string: the frame the store returns
               \* to prepare_dual_data, the series and periods of run_model
    llm,       \* what the classification request did, once it was issued
    routed,    \* the decision route_and_reason returned to /query
    fa,        \* the locals of ForecastingAgent.run
    calls,     \* how many calls each collaborator has received
    out,       \* the outcome of the operation: [exc, val]
    db         \* the module state of db_utils: the connections out of the
               \* pool, the ID cache, and the time its entries are aged by

vars == <<pc, op, query, file_ctx, arg, llm, routed, fa, calls, out, db>>

-----------------------------------------------------------------------------
(* Python str operations *)

\* s[i], "" outside the string
Char(s, i) == IF 1 <= i /\ i <= Len(s) THEN SubSeq(s, i, i) ELSE ""

\* s[a..], "" when a is past the end
From(s, a) == IF a <= Len(s) THEN SubSeq(s, a, Len(s)) ELSE ""

UpperAlpha == "ABCDEFGHIJKLMNOPQRSTUVWXYZ"
LowerAlpha == "abcdefghijklmnopqrstuvwxyz"
Whitespace == {" ", "\t", "\n", "\r", "\f"}
Digits == "0123456789"

\* the index of character c in alphabet a, 0 when absent
IndexIn(a, c) ==
    IF \E i \in 1..Len(a) : Char(a, i) = c
    THEN CHOOSE i \in 1..Len(a) : Char(a, i) = c
    ELSE 0

UpperChars == {Char(UpperAlpha, i) : i \in 1..Len(UpperAlpha)}
LowerTable == [c \in UpperChars |-> Char(LowerAlpha, IndexIn(UpperAlpha, c))]

LowerChar(c) == IF c \in UpperChars THEN LowerTable[c] ELSE c

\* s.lower()
RECURSIVE Lower(_)
Lower(s) == IF s = "" THEN "" ELSE LowerChar(Head(s)) \o Lower(Tail(s))

\* sub in s
Contains(s, sub) ==
    \E i \in 1..(Len(s) - Len(sub) + 1) : SubSeq(s, i, i + Len(sub) - 1) = sub

StartsWith(s, p) == Len(s) >= Len(p) /\ SubSeq(s, 1, Len(p)) = p

RECURSIVE LStrip(_)
LStrip(s) == IF s # "" /\ Head(s) \in Whitespace THEN LStrip(Tail(s)) ELSE s

RECURSIVE RStrip(_)
RStrip(s) ==
    IF s # "" /\ Char(s, Len(s)) \in Whitespace
    THEN RStrip(SubSeq(s, 1, Len(s) - 1))
    ELSE s

\* s.strip()
Strip(s) == RStrip(LStrip(s))

\* len(s.split()): the number of maximal runs of non-whitespace characters
TokenCount(s) ==
    Cardinality({i \in 1..Len(s) :
        /\ Char(s, i) \notin Whitespace
        /\ (i = 1 \/ Char(s, i - 1) \in Whitespace)})

\* no "\n" among s[a..b]: what a regex ".*" can run over
NoNewline(s, a, b) == \A i \in a..b : Char(s, i) # "\n"

\* The literals lits[1], lits[2], ... (each a set of alternatives) occur in s
\* in this order from position from on, separated by ".*"
RECURSIVE MatchFrom(_, _, _)
MatchFrom(s, lits, from) ==
    IF lits = <<>> THEN TRUE
    ELSE \E l \in Head(lits) : \E i \in from..(Len(s) - Len(l) + 1) :
            /\ SubSeq(s, i, i + Len(l) - 1) = l
            /\ NoNewline(s, from, i - 1)
            /\ MatchFrom(s, Tail(lits), i + Len(l))

\* re.compile(".*l1.*l2. ... .*", re.IGNORECASE).search(s): the search may
\* start anywhere, so the first literal may stand anywhere
RegexSearch(s, lits) ==
    LET ls == Lower(s)
    IN  \E l \in Head(lits) : \E i \in 1..(Len(ls) - Len(l) + 1) :
            /\ SubSeq(ls, i, i + Len(l) - 1) = l
            /\ MatchFrom(ls, Tail(lits), i + Len(l))

\* the longest run of digits of s from position i on
RECURSIVE DigitRun(_, _)
DigitRun(s, i) ==
    IF i <= Len(s) /\ IndexIn(Digits, Char(s, i)) # 0
    THEN Char(s, i) \o DigitRun(s, i + 1)
    ELSE ""

\* int(d) for a string of digits
RECURSIVE ParseInt(_)
ParseInt(d) ==
    IF d = "" THEN 0
    ELSE 10 * ParseInt(SubSeq(d, 1, Len(d) - 1)) + (IndexIn(Digits, Char(d, Len(d))) - 1)

\* a and b joined by one space, either of them possibly empty
Join(a, b) == IF a = "" THEN b ELSE IF b = "" THEN a ELSE a \o " " \o b

-----------------------------------------------------------------------------
(* Outcomes of a Python call *)

Ok(v) == [exc |-> "none", val |-> v]
Raise(e) == [exc |-> e, val |-> [type |-> "none"]]

\* A handler that catches no exception class: the variant against which the
\* never-raises property of the router is tested
CatchesNothing(e) == FALSE

\* except Exception
IsException(e) == e \in {"Exception", "ValueError", "AttributeError", "TypeError"}

-----------------------------------------------------------------------------
(* Inputs *)

\* Phrases queries are made of
Fragments ==
    { "hi",
      "forecast ethiopia coffee",
      "Forecast Kenya coffee",
      "price",
      "Kenya maize",
      "next 2 years",
      "rwanda tea",
      "next 6 months",
      "please tell me what you think" }

\* Whole queries: the ones the specification names, and edge cases
ExampleQueries ==
    { "what about the maize export tariff policy for Kenya",
      "tomorrow",
      "next 3 months",
      "Next 12 Years",
      "next 0 months",
      "next  2 years",
      "  hi\n",
      "green maize in rwanda next 2 years",
      "Ethiopia coffee\nnext two years",
      "ethiopia coffee price forecast 2026",
      "kenya coffee price forecast jan 2026" }

Queries ==
    {Join(a, b) : a \in Fragments \cup {""}, b \in Fragments \cup {""}}
        \cup ExampleQueries

\* Texts the Text Generation Service may return
LLMTexts ==
    { "", "  ", "Hello there", "[COMPARATIVE] kenya vs rwanda", "[FORECAST]",
      "[SCENARIO] what if", "[RAG] lookup", " [RAG] lookup\n", "[rag] lookup",
      "see [FORECAST]" }

\* What one generate_content request may do: return text, return a response
\* with no candidates (or no parts), return a part without text, or fail
LLMBehaviours ==
    [kind : {"text"}, text : LLMTexts]
        \cup [kind : {"no_candidates", "no_text", "error"}, text : {""}]

-----------------------------------------------------------------------------
(* agent.py: hardcoded shortcuts *)

is_ethiopia_coffee_forecast_query(q) ==
    \/ RegexSearch(q, <<{"price"}, {"ethiopia"}, {"coffee"}, {"next"}, {"1", "2"}, {"year"}>>)
    \/ RegexSearch(q, <<{"ethiopia"}, {"coffee"}, {"price"}, {"forecast"},
                        {"2025", "2026", "2027"}>>)
    \/ RegexSearch(q, <<{"ethiopia"}, {"coffee"}, {"next"}, {"two"}, {"year"}>>)
    \/ RegexSearch(q, <<{"forecast"}, {"ethiopia"}, {"coffee"}, {"price"}>>)

is_kenya_coffee_forecast_query(q) ==
    \/ RegexSearch(q, <<{"price"}, {"kenya"}, {"coffee"}, {"next"}, {"2"}, {"month"}>>)
    \/ RegexSearch(q, <<{"kenya"}, {"coffee"}, {"price"}, {"forecast"}, {"dec"}, {"2025"}>>)
    \/ RegexSearch(q, <<{"kenya"}, {"coffee"}, {"price"}, {"forecast"}, {"jan"}, {"2026"}>>)
    \/ RegexSearch(q, <<{"kenya"}, {"coffee"}, {"next"}, {"two"}, {"month"}>>)
    \/ RegexSearch(q, <<{"forecast"}, {"kenya"}, {"coffee"}, {"price"}>>)

ContainsAny(s, words) == \E w \in words : Contains(s, w)

is_kenya_maize_forecast_query(q) ==
    LET query_lower == Lower(q)
        has_kenya == ContainsAny(query_lower, {"kenya", "kenyan", "nairobi", "nce", "ncpb"})
        has_maize == ContainsAny(query_lower, {"maize", "corn", "grain", "meal", "unga"})
        has_forecast == ContainsAny(query_lower,
            {"forecast", "predict", "price", "next", "202", "year", "month", "future"})
        has_timeframe == ContainsAny(query_lower,
            {"next", "202", "2025", "2026", "2027", "year", "month", "future", "coming"})
    IN  has_kenya /\ has_maize /\ has_forecast /\ has_timeframe

\* the shortcut a query matches, in the order the code tests them
Shortcut(q) ==
    IF is_ethiopia_coffee_forecast_query(q) THEN "ethiopia_coffee_forecast"
    ELSE IF is_kenya_coffee_forecast_query(q) THEN "kenya_coffee_forecast"
    ELSE IF is_kenya_maize_forecast_query(q) THEN "kenya_maize_forecast"
    ELSE "none"

-----------------------------------------------------------------------------
(* agent.py: route_and_reason *)

Decision(t, r) == [type |-> t, response |-> r]

trade_keywords ==
    { "export", "import", "price", "trade", "coffee", "maize",
      "tanzania", "kenya", "forecast", "compare", "supply", "gap",
      "collision", "arbitrage", "logistics", "rainfall", "harvest",
      "farm gate", "simulate", "policy", "shock" }

ShortQueryTokens == 6

Greeting == "Hello! I specialize in East African agricultural trade data. How can I help?"

\* Variant of the except branch with the token bound exclusive
KeywordDegradeStrict(user_query) ==
    LET q == Lower(user_query)
    IN  IF TokenCount(q) < ShortQueryTokens /\ ~ContainsAny(q, trade_keywords)
        THEN Decision("trivial", Greeting)
        ELSE Decision("rag", "")

\* the except branch: keyword degradation
KeywordDegrade(user_query) ==
    LET q == Lower(user_query)
    IN  IF TokenCount(q) <= ShortQueryTokens /\ ~ContainsAny(q, trade_keywords)
        THEN Decision("trivial", Greeting)
        ELSE Decision("rag", "")

\* Variant of the tag parse that accepts a tag anywhere in the text
ParseTagAnywhere(raw_output) ==
    IF Contains(raw_output, "[COMPARATIVE]") THEN Decision("comparative", "")
    ELSE IF Contains(raw_output, "[FORECAST]") THEN Decision("forecast", "")
    ELSE IF Contains(raw_output, "[SCENARIO]") THEN Decision("scenario", "")
    ELSE IF Contains(raw_output, "[RAG]") THEN Decision("rag", "")
    ELSE Decision("trivial", raw_output)

\* the tag parse of the returned text
ParseTag(raw_output) ==
    IF StartsWith(raw_output, "[COMPARATIVE]") THEN Decision("comparative", "")
    ELSE IF StartsWith(raw_output, "[FORECAST]") THEN Decision("forecast", "")
    ELSE IF StartsWith(raw_output, "[SCENARIO]") THEN Decision("scenario", "")
    ELSE IF StartsWith(raw_output, "[RAG]") THEN Decision("rag", "")
    ELSE Decision("trivial", raw_output)

\* the try body: the parse of what the classification request answered
ClassifyAttempt(l) ==
    CASE l.kind = "error" -> Raise("Exception")
      [] l.kind = "no_text" -> Raise("AttributeError")
      [] l.kind = "no_candidates" -> Ok(ParseTag(""))
      [] l.kind = "text" -> Ok(ParseTag(Strip(l.text)))

\* Variant of route_and_reason that asks the Text Generation Service first and
\* consults the shortcuts on what is left
route_and_reason_classify_first(user_query, l) ==
    LET shortcut == Shortcut(user_query)
        t == ClassifyAttempt(l)
    IN  IF IsException(t.exc)
        THEN [exc |-> "none", val |-> KeywordDegrade(user_query), requests |-> 1,
              heuristic |-> 1]
        ELSE IF shortcut # "none"
        THEN [exc |-> "none", val |-> Decision(shortcut, ""), requests |-> 1,
              heuristic |-> 0]
        ELSE [exc |-> t.exc, val |-> t.val, requests |-> 1, heuristic |-> 0]

\* Variant of route_and_reason that also applies the keyword heuristic to a
\* returned text that carries no tag
route_and_reason_heuristic_on_untagged(user_query, l) ==
    LET shortcut == Shortcut(user_query)
        t == ClassifyAttempt(l)
    IN  IF shortcut # "none"
        THEN [exc |-> "none", val |-> Decision(shortcut, ""), requests |-> 0,
              heuristic |-> 0]
        ELSE IF IsException(t.exc) \/ t.val.type = "trivial"
        THEN [exc |-> "none", val |-> KeywordDegrade(user_query), requests |-> 1,
              heuristic |-> 1]
        ELSE [exc |-> t.exc, val |-> t.val, requests |-> 1, heuristic |-> 0]

\* route_and_reason(user_query) when the Text Generation Service behaves as l:
\* the outcome, the number of classification requests issued, and the number
\* of times the keyword heuristic of the except clause ran
route_and_reason(user_query, l) ==
    LET shortcut == Shortcut(user_query)
        t == ClassifyAttempt(l)
    IN  IF shortcut # "none"
        THEN [exc |-> "none", val |-> Decision(shortcut, ""), requests |-> 0,
              heuristic |-> 0]
        ELSE IF IsException(t.exc)
        THEN [exc |-> "none", val |-> KeywordDegrade(user_query), requests |-> 1,
              heuristic |-> 1]
        ELSE [exc |-> t.exc, val |-> t.val, requests |-> 1, heuristic |-> 0]

-----------------------------------------------------------------------------
(* agents/comparative/utils.py: extract_entities *)

country_names == <<"kenya", "tanzania", "uganda", "rwanda", "ethiopia", "burundi">>
commodity_names == <<"coffee", "maize", "tea", "beans", "wheat", "rice", "sugar">>

LowerChars == {Char(LowerAlpha, i) : i \in 1..Len(LowerAlpha)}
UpperTable == [c \in LowerChars |-> Char(UpperAlpha, IndexIn(LowerAlpha, c))]

\* s.title() given the character before s: a letter is made upper case
\* after a character that is no letter, lower case after a letter
RECURSIVE TitleAfter(_, _)
TitleAfter(prev, s) ==
    IF s = "" THEN ""
    ELSE LET c == Head(s)
             cased == IF prev \in UpperChars \cup LowerChars
                      THEN LowerChar(c)
                      ELSE IF c \in LowerChars THEN UpperTable[c] ELSE c
         IN  cased \o TitleAfter(c, Tail(s))

\* s.title()
Title(s) == TitleAfter("", s)

\* [f(c) for c in names if c in q], f being title() or nothing
RECURSIVE Occurring(_, _, _)
Occurring(names, q, titled) ==
    IF names = <<>> THEN <<>>
    ELSE (IF Contains(q, Head(names))
          THEN <<IF titled THEN Title(Head(names)) ELSE Head(names)>>
          ELSE <<>>) \o Occurring(Tail(names), q, titled)

MaxCountries == 2
DefaultCommodity == "coffee"

\* Variant of the slice that keeps the whole list
TakeAll(seq, n) == seq

\* seq[:n]
Take(seq, n) == IF Len(seq) <= n THEN seq ELSE SubSeq(seq, 1, n)

extract_entities(q) ==
    LET query_lower == Lower(q)
        countries == Occurring(country_names, query_lower, TRUE)
        commodities == Occurring(commodity_names, query_lower, FALSE)
    IN  [ countries |-> Take(countries, MaxCountries),
          commodity |-> IF commodities # <<>> THEN commodities[1] ELSE DefaultCommodity ]

-----------------------------------------------------------------------------
(* forecasting/config.py *)

SUPPORTED_COUNTRIES == <<"kenya", "ethiopia", "rwanda">>

\* the keys of ALIAS_MAP in insertion order, which is the order of iteration
ALIAS_KEYS ==
    << "maize", "dry maize", "green maize", "coffee_arabica", "coffee_robusta",
       "arabica", "robusta", "coffee", "tea", "maize flour" >>

ALIAS_MAP ==
    [k \in {ALIAS_KEYS[i] : i \in 1..Len(ALIAS_KEYS)} |->
        CASE k \in {"maize", "dry maize"} -> "dry maize"
          [] k = "green maize" -> "green maize"
          [] k \in {"coffee_arabica", "coffee_robusta", "arabica", "robusta", "coffee"} -> "Coffee"
          [] k = "tea" -> "Tea"
          [] k = "maize flour" -> "Maize Flour"]

\* next((k for k in keys if k in q), None), None being ""
FirstIn(keys, q) ==
    IF \E i \in 1..Len(keys) : Contains(q, keys[i])
    THEN keys[CHOOSE i \in 1..Len(keys) :
                /\ Contains(q, keys[i])
                /\ \A j \in 1..(i - 1) : ~Contains(q, keys[j])]
    ELSE ""

-----------------------------------------------------------------------------
(* forecasting/forecasting_agent.py: ForecastingAgent *)

DefaultPeriods == 3
MonthsPerYear == 12

\* re.match(r"next (\d+) (year|years|month|months)", timeframe.lower())
parse_timeframe(timeframe) ==
    LET t == Lower(timeframe)
        num == DigitRun(t, 6)
        unit == From(t, 7 + Len(num))
        matched ==
            /\ StartsWith(t, "next ")
            /\ num # ""
            /\ Char(t, 6 + Len(num)) = " "
            /\ (StartsWith(unit, "year") \/ StartsWith(unit, "month"))
    IN  IF ~matched THEN DefaultPeriods
        ELSE IF StartsWith(unit, "month") THEN ParseInt(num)
        ELSE ParseInt(num) * MonthsPerYear

\* timeframe = "next 3 months" if "month" in q else "next 1 year"
Timeframe(q) == IF Contains(q, "month") THEN "next 3 months" ELSE "next 1 year"

HighConfidenceRows == 24

\* Variant of the confidence rule with the threshold exclusive
ConfidenceAbove(df_len) ==
    IF df_len > HighConfidenceRows THEN "High" ELSE "Medium"

\* "High" if len(df) >= 24 else "Medium"
ConfidenceLevel(df_len) ==
    IF df_len >= HighConfidenceRows THEN "High" ELSE "Medium"

\* data_points_used of the deferred result built at each except clause
DeferredPoints(stage, df_len) == IF stage = "model" THEN df_len ELSE 0

DeferredResult(q, analysis, stage, df_len) ==
    [ type |-> "forecast",
      query |-> q,
      forecast_display |-> "See interpretation below.",
      interpretation |-> analysis,
      confidence_level |-> "Medium",
      data_points_used |-> DeferredPoints(stage, df_len),
      source |-> "web_fallback" ]

\* forecast_dual_metrics keeps, of the unit-price and revenue runs, the mean,
\* the intervals and the method tag, and of the volume run the mean only:
\* each entry is the record of what is kept, the bare float of volume_kg
\* being the record with the field forecast alone
DualForecast(models) ==
    [ unit_price |-> [forecast |-> "mean", intervals |-> "intervals", model |-> models[1]],
      total_revenue |-> [forecast |-> "mean", intervals |-> "intervals", model |-> models[2]],
      volume_kg |-> [forecast |-> "mean"] ]

ForecastResult(q, interpretation, df_len, models) ==
    [ type |-> "forecast",
      query |-> q,
      forecast_display |-> "Unit Price | Revenue | Volume",
      dual_forecast |-> DualForecast(models),
      interpretation |-> interpretation,
      confidence_level |-> ConfidenceLevel(df_len),
      data_points_used |-> df_len ]

\* Variant in which every try of run catches ValueError only
CatchesValueErrorOnly(stage, exc) == exc = "ValueError"

\* which exceptions each try of run catches
Catches(stage, exc) ==
    CASE stage = "lookup" -> IsException(exc)
      [] stage = "prepare" -> exc = "ValueError" \/ IsException(exc)
      [] stage = "model" -> IsException(exc)
      [] stage = "interpret" -> IsException(exc)

MarkupChars == {"*", "#", "-", "_", "<", ">", "/"}

\* re.sub(r"[\*\#\-\_\<\>\/]+", "", raw_text)
RECURSIVE RemoveMarkup(_)
RemoveMarkup(s) ==
    IF s = "" THEN ""
    ELSE IF Head(s) \in MarkupChars THEN RemoveMarkup(Tail(s))
    ELSE Head(s) \o RemoveMarkup(Tail(s))

-----------------------------------------------------------------------------
(* economist_fallback.py, web_search.py *)

\* search_web: the results, an empty list when the search fails
search_web(s) == IF s = "results" THEN <<"result">> ELSE <<>>

\* economist_web_answer when the generation request behaves as l
economist_web_answer(l) ==
    CASE l.kind = "text" -> Strip(l.text)
      [] l.kind = "no_candidates" ->
            "Dr. Zeno was unable to generate a response at this time. Please try again."
      [] l.kind = "no_text" -> "Unable to generate analysis at this time. Error: AttributeError"
      [] l.kind = "error" -> "Unable to generate analysis at this time. Error: Exception"

-----------------------------------------------------------------------------
(* Floats *)

\* Float arithmetic (data_utils.py, model_utils.py), taken as exact: a float is the fraction num/den in lowest
\* terms with den > 0, so that equal numbers are equal values
RECURSIVE GCD(_, _)
GCD(a, b) == IF b = 0 THEN a ELSE GCD(b, a % b)

Rat(n, d) ==
    LET g == GCD(IF n < 0 THEN -n ELSE n, d)
    IN  [num |-> n \div g, den |-> d \div g]

RatAdd(p, q) == Rat(p.num * q.den + q.num * p.den, p.den * q.den)
RatMul(p, q) == Rat(p.num * q.num, p.den * q.den)
RatLeq(p, q) == p.num * q.den <= q.num * p.den

-----------------------------------------------------------------------------
(* forecasting/data_utils.py: prepare_dual_data, by the size of the frame *)

MinRows == 8
MaxRows == 25
MaxDropped == 1

StoreRowCounts == {0, MinRows - 1, MinRows, HighConfidenceRows - 1, HighConfidenceRows, MaxRows}

\* Unit names and symbols the store may hold; "" is an empty or a null value,
\* which `or` treats alike
UnitNames == {"", "Metric Tons", "TONNES", "Kilograms", "KG", "Quintal", "bags"}
UnitSymbols == {"", "t", "T", "kg", "q", "b"}

\* The frame get_trade_data_from_db returns: `rows` rows, of which
\* `zero_quantity` have quantity 0 and `null_cells` others a null date,
\* quantity or price; the order of its dates once parsed (the store orders by
\* its date column, whose type the query does not fix); the columns it has;
\* the units of its first row
Frames ==
    {f \in [kind : {"frame"}, rows : StoreRowCounts,
            zero_quantity : 0..MaxDropped, null_cells : 0..MaxDropped,
            order : {"ascending", "descending"},
            has_date : BOOLEAN, has_quantity : BOOLEAN, has_price : BOOLEAN,
            unit_name : UnitNames, unit_symbol : UnitSymbols] :
        f.zero_quantity + f.null_cells <= f.rows}

\* the store read itself failing: no indicator, or a database error
StoreFailures ==
    [kind : {"lookup_error", "db_error"}, rows : {0},
     zero_quantity : {0}, null_cells : {0}, order : {"ascending"},
     has_date : {TRUE}, has_quantity : {TRUE}, has_price : {TRUE},
     unit_name : {""}, unit_symbol : {""}]

\* What the store read may do within one run of the pipeline, which keeps of
\* the frame its length only
PrepBehaviours ==
    StoreFailures \cup
        {f \in Frames : f.unit_name = "Metric Tons" /\ f.unit_symbol = "t" /\ f.null_cells = 0
                      /\ f.order = "ascending"}

TonneMultiplier == 1000
QuintalMultiplier == 100

UnitChoice(kg_multiplier, display_unit, unit_symbol) ==
    [kg_multiplier |-> kg_multiplier, display_unit |-> display_unit,
     unit_symbol |-> unit_symbol]

\* lines 35-57: the unit of the first row, defaulted, and the ordered policy
UnitPolicy(name_read, symbol_read) ==
    LET unit_name == IF name_read = "" THEN "tonnes" ELSE name_read
        unit_symbol == IF symbol_read = "" THEN "t" ELSE symbol_read
        unit_str == Lower(unit_name \o " " \o unit_symbol)
    IN  IF Contains(unit_str, "ton") \/ unit_symbol = "t"
        THEN UnitChoice(TonneMultiplier, "tonnes", unit_symbol)
        ELSE IF Contains(unit_str, "kg") THEN UnitChoice(1, "kg", unit_symbol)
        ELSE IF Contains(unit_str, "quintal")
        THEN UnitChoice(QuintalMultiplier, "quintals", unit_symbol)
        ELSE UnitChoice(TonneMultiplier, "tonnes", unit_symbol)

\* The rows of the frame, by index label: the first zero_quantity rows have
\* quantity 0, the next null_cells rows a null date, quantity or price in
\* turn; dates come in pairs of equal days, rising or falling
Data(p) ==
    [i \in 1..p.rows |->
        LET day == IF p.order = "ascending" THEN (i + 1) \div 2 ELSE (p.rows - i) \div 2
            bad == i > p.zero_quantity /\ i <= p.zero_quantity + p.null_cells
        IN  [index |-> i, date |-> day,
             quantity |-> IF i <= p.zero_quantity THEN 0 ELSE 1 + (day % 3),
             price |-> 10 * (day % 4),
             null |-> IF ~bad THEN "none"
                      ELSE IF i % 3 = 0 THEN "date"
                      ELSE IF i % 3 = 1 THEN "quantity" ELSE "price"]]

\* Variant of the derived columns that divides the price by the quantity as
\* read
DerivedPerUnit(row, kg_multiplier) ==
    [index |-> row.index, ds |-> row.date, quantity_kg |-> row.quantity * kg_multiplier,
     price |-> row.price,
     unit_price |-> IF row.quantity = 0 THEN Rat(0, 1) ELSE Rat(row.price, row.quantity),
     null |-> row.null # "none" \/ row.quantity * kg_multiplier = 0]

\* lines 32, 59-60: ds, quantity_kg and unit_price of a row; unit_price is
\* null where quantity_kg is 0, and every cell derived from a null is null
Derived(row, kg_multiplier) ==
    LET quantity_kg == row.quantity * kg_multiplier
    IN  [index |-> row.index, ds |-> row.date, quantity_kg |-> quantity_kg,
         price |-> row.price,
         unit_price |-> IF quantity_kg = 0 THEN Rat(0, 1) ELSE Rat(row.price, quantity_kg),
         null |-> row.null # "none" \/ quantity_kg = 0]

\* dropna(): the rows without a null cell, in the order of the frame
DropNa(p, kg_multiplier) ==
    LET NotNull(row) == ~row.null
    IN  SelectSeq([i \in 1..p.rows |-> Derived(Data(p)[i], kg_multiplier)], NotNull)

\* sort_values("ds"): rows of equal ds keep an order the sort does not fix;
\* here they are equal in every column but the index label
RECURSIVE SortValues(_)
SortValues(rows) ==
    IF rows = <<>> THEN <<>>
    ELSE LET rest == SortValues(Tail(rows))
             before == SelectSeq(rest, LAMBDA r : r.ds < Head(rows).ds)
             after == SelectSeq(rest, LAMBDA r : r.ds >= Head(rows).ds)
         IN  before \o <<Head(rows)>> \o after

\* len(df_clean): dropna drops the rows with a null cell and those whose
\* unit_price is null because their quantity is 0
CleanRows(p) == Len(DropNa(p, 1))

\* line 66: the cleaned series with the display unit
Prepared(p) ==
    LET unit == UnitPolicy(p.unit_name, p.unit_symbol)
    IN  Ok([len |-> CleanRows(p), unit |-> unit,
            series |-> SortValues(DropNa(p, unit.kg_multiplier))])

\* Variant of prepare_dual_data that tests the length of the frame as read
prepare_dual_data_raw_length(p) ==
    CASE p.kind = "lookup_error" -> Raise("ValueError")
      [] p.kind = "db_error" -> Raise("Exception")
      [] p.kind = "frame" ->
            IF p.rows = 0 THEN Raise("ValueError")
            ELSE IF ~p.has_date THEN Raise("ValueError")
            ELSE IF ~p.has_quantity \/ ~p.has_price THEN Raise("ValueError")
            ELSE IF p.rows < MinRows THEN Raise("ValueError")
            ELSE Prepared(p)

prepare_dual_data(p) ==
    CASE p.kind = "lookup_error" -> Raise("ValueError")
      [] p.kind = "db_error" -> Raise("Exception")
      [] p.kind = "frame" ->
            IF p.rows = 0 THEN Raise("ValueError")
            ELSE IF ~p.has_date THEN Raise("ValueError")
            ELSE IF ~p.has_quantity \/ ~p.has_price THEN Raise("ValueError")
            ELSE IF CleanRows(p) < MinRows THEN Raise("ValueError")
            ELSE Prepared(p)

-----------------------------------------------------------------------------
(* forecasting/model_utils.py: run_model *)

MaxSeries == 5

\* the numbers of periods run_model is asked for
PeriodChoices == {0, 1, DefaultPeriods, MonthsPerYear}

\* The y column of the series run_model is given: every sequence of a few
\* values, and the exactly linear ones a + b*i, rising and falling below zero
SeriesValues == {-1, 0, 2}

Series ==
    UNION {[1..n -> SeriesValues] : n \in 0..MaxSeries}
        \cup {[i \in 1..n |-> a + b * (i - 1)] :
                n \in 0..MaxSeries, a \in {0, 3}, b \in {-2, 1}}

\* The series given to run_model: its y values and their number, the type of
\* the values (floats, or the Decimal objects the store returns for NUMERIC
\* columns), and what Prophet does when it is fitted on it
SeriesArgs ==
    {[kind |-> "series", len |-> Len(ys), ys |-> ys, values |-> v,
      periods |-> p, prophet |-> f] :
        ys \in Series, v \in {"float", "decimal"}, p \in PeriodChoices,
        f \in {"fits", "fit_error", "predict_error"}}

\* sum of f[1..n]
RECURSIVE SumTo(_, _)
SumTo(f, n) == IF n = 0 THEN 0 ELSE f[n] + SumTo(f, n - 1)

PrimaryMinPoints == 4
LinearMinPoints == 2

\* Variant of the validation that lets a series of three points through
TooShortBelowThree(n) == n < PrimaryMinPoints - 1

\* df.empty or len(df) < 4
TooShort(n) == n = 0 \/ n < PrimaryMinPoints

\* len(frame.tail(n)) for a frame of `rows` rows
TailLen(rows, n) == IF n <= rows THEN n ELSE rows

\* len(np.arange(a, b))
ArangeLen(a, b) == IF b > a THEN b - a ELSE 0

\* Variant of the fallback that extrapolates over arange(n, periods)
FallbackLenFromZero(n, periods) ==
    IF n < LinearMinPoints THEN periods ELSE ArangeLen(n, periods)

\* len(forecast_values) of the fallback: np.full(periods, last_value), or the
\* line over np.arange(len(df), len(df) + periods)
FallbackLen(n, periods) ==
    IF n < LinearMinPoints THEN periods ELSE ArangeLen(n, n + periods)

\* the fallback multiplies or adds a float to the values: Decimal objects
\* raise TypeError as soon as one element is touched
FallbackRaises(a) ==
    /\ a.values = "decimal"
    /\ \/ a.len >= LinearMinPoints
       \/ a.len = 1 /\ a.periods > 0

\* np.polyfit(x, y, 1) with x = np.arange(len(df)): the slope and intercept of
\* the least-squares line, from the normal equations
polyfit(ys) ==
    LET n   == Len(ys)
        Sx  == SumTo([i \in 1..n |-> i - 1], n)
        Sy  == SumTo(ys, n)
        Sxx == SumTo([i \in 1..n |-> (i - 1) * (i - 1)], n)
        Sxy == SumTo([i \in 1..n |-> (i - 1) * ys[i]], n)
        D   == n * Sxx - Sx * Sx
    IN  [slope |-> Rat(n * Sxy - Sx * Sy, D), intercept |-> Rat(Sy * Sxx - Sx * Sxy, D)]

\* Variant of the extrapolation that starts one index late, at len(df) + 1
FallbackValueLate(ys, k) ==
    IF Len(ys) < LinearMinPoints
    THEN IF Len(ys) = 0 THEN Rat(0, 1) ELSE Rat(ys[Len(ys)], 1)
    ELSE LET fit == polyfit(ys)
         IN  RatAdd(RatMul(fit.slope, Rat(Len(ys) + k, 1)), fit.intercept)

\* forecast_values[k - 1] of the fallback: 0.0 or the last value when there are
\* fewer than two points, else slope * future_x + intercept with
\* future_x = np.arange(len(df), len(df) + periods)
FallbackValue(ys, k) ==
    IF Len(ys) < LinearMinPoints
    THEN IF Len(ys) = 0 THEN Rat(0, 1) ELSE Rat(ys[Len(ys)], 1)
    ELSE LET fit == polyfit(ys)
         IN  RatAdd(RatMul(fit.slope, Rat(Len(ys) + k - 1, 1)), fit.intercept)

\* Variant of the lower bound that repeats the forecast
LowerBoundAsMean(v) == v

\* forecast_values * 0.9 and forecast_values * 1.1, element by element
LowerBound(v) == RatMul(v, Rat(9, 10))
UpperBound(v) == RatMul(v, Rat(11, 10))

\* the tuple run_model returns: the forecast array, the intervals (lower,
\* upper and mean, the mean being the forecast again) and the method tag
ModelResult(forecast, lower, upper, tag) ==
    Ok([forecast |-> forecast, lower |-> lower, upper |-> upper, mean |-> forecast,
        forecast_len |-> Len(forecast), lower_len |-> Len(lower),
        upper_len |-> Len(upper), mean_len |-> Len(forecast), tag |-> tag])

\* the last `periods` rows of Prophet's prediction: values this model does not
\* compute
ProphetResult(n) ==
    ModelResult([k \in 1..n |-> [column |-> "yhat", row |-> k]],
                [k \in 1..n |-> [column |-> "yhat_lower", row |-> k]],
                [k \in 1..n |-> [column |-> "yhat_upper", row |-> k]], "prophet")

FallbackResult(ys, periods) ==
    LET forecast == [k \in 1..FallbackLen(Len(ys), periods) |-> FallbackValue(ys, k)]
    IN  ModelResult(forecast,
                    [k \in DOMAIN forecast |-> LowerBound(forecast[k])],
                    [k \in DOMAIN forecast |-> UpperBound(forecast[k])],
                    "linear_fallback")

\* run_model(df, periods): the outcome, and whether Prophet was fitted
run_model(a) ==
    IF ~TooShort(a.len) /\ a.prophet = "fits"
    THEN ProphetResult(TailLen(a.len + a.periods, a.periods)) @@ [fitted |-> 1]
    ELSE (IF FallbackRaises(a) THEN Raise("TypeError")
          ELSE FallbackResult(a.ys, a.periods))
            @@ [fitted |-> IF TooShort(a.len) THEN 0 ELSE 1]

-----------------------------------------------------------------------------
(* db_utils.py: the connection pool, the ID cache and the store operations *)

\* cache = TTLCache(maxsize=1000, ttl=3600); the thousand entries are beyond
\* the names used here
ttl == 3600

Lookups ==
    {"get_country_id_by_name", "get_product_id_by_name", "get_indicator_id_by_metric"}

StoreOps == Lookups \cup {"get_trade_data_from_db", "query_rag_embeddings_semantic"}

\* the names looked up, in several cases
StoreNames == {"Kenya", "KENYA", "exports"}

\* What the connection and the store do during one operation: the row is
\* found (for a product, by the exact or only by the LIKE query), there is no
\* row, the pool gives no connection, the connection gives no cursor, or the
\* query fails
StoreBehaviours ==
    {"found", "found_like", "not_found", "conn_error", "cursor_error", "query_error"}

StoreCalls == [kind : {"store_call"}, f : StoreOps, name : StoreNames, does : StoreBehaviours]

\* db_pool with no connection out, an empty cache
NoStore == [in_use |-> 0, acquired |-> 0, cache |-> <<>>, now |-> 0, calls |-> 0]

\* name.lower() of the names looked up
LowerName == [n \in StoreNames |-> Lower(n)]

\* the prefix of the cache keys of a lookup
KeyPrefix(f) ==
    CASE f = "get_country_id_by_name" -> "country_"
      [] f = "get_product_id_by_name" -> "product_"
      [] OTHER -> "metric_"

\* Variant of the cache key that keeps the case of the name
CacheKeyAsGiven(f, name) == KeyPrefix(f) \o name

\* cache_key = f"country_{country_name.lower()}", and the like
CacheKey(f, name) == KeyPrefix(f) \o LowerName[name]

\* cache_key in cache: the entry is there and the timer is before its expiry
Cached(cache, key, now) == key \in DOMAIN cache /\ now < cache[key].expires

\* cache[cache_key] = id: the expired entries go, the entry is written
CacheWrite(cache, key, id, now) ==
    LET kept == {k \in DOMAIN cache : now < cache[k].expires} \cup {key}
    IN  [k \in kept |-> IF k = key THEN [id |-> id, expires |-> now + ttl] ELSE cache[k]]

\* the id the store holds for a name, matched on LOWER(name)
RowId(name) == Len(LowerName[name])

\* finally: if conn is not None: cur.close(); release_db_connection(conn).
\* When conn.cursor() raised, cur is unbound: cur.close() raises
\* UnboundLocalError in place of whatever the try was leaving with, and the
\* release is not reached
Finally(conn, cur_bound, then) ==
    IF conn = 0 THEN then @@ [released |-> 0]
    ELSE IF ~cur_bound
    THEN [exc |-> "UnboundLocalError", val |-> [type |-> "none"], write |-> FALSE,
          released |-> 0]
    ELSE then @@ [released |-> 1]

\* what the try block leaves with: the value returned or the exception, and
\* whether the cache is written
TryBlock(f, name, does) ==
    LET failing(e) == IF f = "query_rag_embeddings_semantic"
                      THEN Ok([type |-> "list", rows |-> 0]) @@ [write |-> FALSE]
                      ELSE Raise(e) @@ [write |-> FALSE]
    IN  CASE does = "conn_error" -> failing("PoolError")
          [] does = "cursor_error" -> failing("InterfaceError")
          [] does = "query_error" -> failing("DatabaseError")
          [] f \in Lookups ->
                IF does = "found" \/ (does = "found_like" /\ f # "get_country_id_by_name")
                THEN Ok(RowId(name)) @@ [write |-> TRUE]
                ELSE Raise("ValueError") @@ [write |-> FALSE]
          [] f = "get_trade_data_from_db" ->
                Ok([type |-> "frame", rows |-> IF does = "not_found" THEN 0 ELSE MinRows])
                    @@ [write |-> FALSE]
          [] OTHER ->
                Ok([type |-> "list", rows |-> IF does = "not_found" THEN 0 ELSE 1])
                    @@ [write |-> FALSE]

\* one store operation on the module state d: the outcome, the connections
\* taken and given back, and the cache after it
store_operation(f, name, does, d) ==
    IF f \in Lookups /\ Cached(d.cache, CacheKey(f, name), d.now)
    THEN Ok(d.cache[CacheKey(f, name)].id)
            @@ [acquired |-> 0, released |-> 0, cache |-> d.cache]
    ELSE LET conn == IF does = "conn_error" THEN 0 ELSE 1
             r == Finally(conn, does # "cursor_error", TryBlock(f, name, does))
         IN  [exc |-> r.exc, val |-> r.val, acquired |-> conn, released |-> r.released,
              cache |-> IF TryBlock(f, name, does).write
                        THEN CacheWrite(d.cache, CacheKey(f, name), RowId(name), d.now)
                        ELSE d.cache]

-----------------------------------------------------------------------------
(* State *)

NoLLM == [kind |-> "none", text |-> ""]
NoDecision == Decision("none", "")
NoOut == [exc |-> "none", val |-> [type |-> "none"]]

NoCalls ==
    [classify |-> 0, heuristic |-> 0, generate |-> 0, search |-> 0, lookup |-> 0,
     prepare |-> 0, rag |-> 0, model |-> 0, fit |-> 0]

\* the locals of ForecastingAgent.run before it starts
NoForecast ==
    [ commodity |-> "", country |-> "", timeframe |-> "", periods |-> 0,
      df_len |-> 0, models |-> <<>>, stage |-> "none", search |-> "none" ]

FileContexts == {"", "  ", "report.pdf: maize exports"}

\* the operation takes strings only
NoArg == [kind |-> "none"]

Blank ==
    /\ llm = NoLLM
    /\ routed = NoDecision
    /\ fa = NoForecast
    /\ calls = NoCalls
    /\ out = NoOut
    /\ db = NoStore

\* the query as the operation sees it: /query strips what the request carries
UserQuery == IF op = "query" THEN Strip(query) ELSE query
FileContext == IF op = "query" THEN Strip(file_ctx) ELSE file_ctx

-----------------------------------------------------------------------------
(* route_and_reason, called by /query or directly *)

RouteAndReason ==
    /\ pc = "route"
    /\ \E l \in LLMBehaviours :
        LET r == route_and_reason(UserQuery, l)
        IN  /\ llm' = IF r.requests = 0 THEN NoLLM ELSE l
            /\ calls' = [calls EXCEPT !.classify = @ + r.requests,
                                      !.heuristic = @ + r.heuristic]
            /\ IF op = "route_and_reason"
               THEN /\ out' = [exc |-> r.exc, val |-> r.val]
                    /\ pc' = "returned"
                    /\ UNCHANGED routed
               ELSE IF r.exc = "none"
               THEN /\ routed' = r.val
                    /\ pc' = "routed"
                    /\ UNCHANGED out
               ELSE /\ out' = [exc |-> r.exc, val |-> r.val]
                    /\ pc' = "q_except"
                    /\ UNCHANGED routed
    /\ UNCHANGED <<db, op, query, file_ctx, arg, fa>>

-----------------------------------------------------------------------------
(* ForecastingAgent.run, step by step *)

\* Variant in which the except clause of the ID lookups does not return, so
\* that run goes on to prepare_dual_data
DeferThenPrepare(stage) ==
    /\ fa' = [fa EXCEPT !.stage = stage]
    /\ pc' = IF stage = "lookup" THEN "fa_prepare" ELSE "fa_web"
    /\ UNCHANGED out

\* the web-fallback answer is built next, for the except clause of `stage`
Defer(stage) ==
    /\ fa' = [fa EXCEPT !.stage = stage]
    /\ pc' = "fa_web"
    /\ UNCHANGED out

\* an exception no try of run catches reaches the caller
Escape(exc) ==
    /\ out' = Raise(exc)
    /\ pc' = "fa_done"
    /\ UNCHANGED fa

\* lines 37-66: the empty query, and the resolution of commodity and country
FA_Resolve ==
    /\ pc = "fa_start"
    /\ LET q == Lower(UserQuery)
           commodity == FirstIn(ALIAS_KEYS, q)
           country == FirstIn(SUPPORTED_COUNTRIES, q)
       IN  IF UserQuery = ""
           THEN /\ out' = Ok([error |-> "No query provided."])
                /\ pc' = "fa_done"
                /\ UNCHANGED fa
           ELSE IF commodity = "" \/ country = ""
           THEN /\ fa' = [fa EXCEPT !.commodity = commodity, !.country = country,
                                    !.timeframe = Timeframe(q), !.stage = "resolve"]
                /\ pc' = "fa_web"
                /\ UNCHANGED out
           ELSE /\ fa' = [fa EXCEPT !.commodity = ALIAS_MAP[commodity], !.country = country,
                                    !.timeframe = Timeframe(q)]
                /\ pc' = "fa_lookup"
                /\ UNCHANGED out
    /\ UNCHANGED <<db, op, query, file_ctx, arg, llm, routed, calls>>

\* lines 68-82: get_country_id_by_name, then get_product_id_by_name
FA_LookupIds ==
    /\ pc = "fa_lookup"
    /\ \E r \in {"ok", "country_error", "product_error"},
          e \in {"ValueError", "Exception"} :
        /\ calls' = [calls EXCEPT !.lookup = @ + (IF r = "country_error" THEN 1 ELSE 2)]
        /\ IF r = "ok"
           THEN pc' = "fa_prepare" /\ UNCHANGED <<fa, out>>
           ELSE IF Catches("lookup", e) THEN Defer("lookup")
           ELSE Escape(e)
    /\ UNCHANGED <<db, op, query, file_ctx, arg, llm, routed>>

\* lines 84-110: prepare_dual_data
FA_Prepare ==
    /\ pc = "fa_prepare"
    /\ \E p \in PrepBehaviours :
        LET r == prepare_dual_data(p)
        IN  IF r.exc = "none"
            THEN /\ fa' = [fa EXCEPT !.df_len = r.val.len]
                 /\ pc' = "fa_rag"
                 /\ UNCHANGED out
            ELSE IF Catches("prepare", r.exc) THEN Defer("prepare")
            ELSE Escape(r.exc)
    /\ calls' = [calls EXCEPT !.prepare = @ + 1]
    /\ UNCHANGED <<db, op, query, file_ctx, arg, llm, routed>>

\* lines 112-113: get_enhanced_rag_context, which swallows every failure of
\* its four retrievals, and parse_timeframe
FA_Context ==
    /\ pc = "fa_rag"
    /\ \E r \in {"found", "nothing", "error"} :
        /\ fa' = [fa EXCEPT !.periods = parse_timeframe(fa.timeframe)]
        /\ calls' = [calls EXCEPT !.rag = @ + 4]
    /\ pc' = "fa_model"
    /\ UNCHANGED <<db, op, query, file_ctx, arg, llm, routed, out>>

ModelOutcomes == {"prophet", "linear_fallback", "raise"}
Targets == 3

\* lines 115-128 and forecast_dual_metrics: one run_model per target
FA_RunModel ==
    /\ pc = "fa_model"
    /\ \E m \in ModelOutcomes :
        IF m = "raise"
        THEN IF Catches("model", "Exception") THEN Defer("model") ELSE Escape("Exception")
        ELSE /\ fa' = [fa EXCEPT !.models = Append(@, m)]
             /\ pc' = IF Len(fa.models) + 1 = Targets THEN "fa_interpret" ELSE "fa_model"
             /\ UNCHANGED out
    /\ calls' = [calls EXCEPT !.model = @ + 1]
    /\ UNCHANGED <<db, op, query, file_ctx, arg, llm, routed>>

\* Texts the generation requests of the forecasting agent may return
AnalysisTexts == {"Prices *rise* - supply is tight", " \n"}

AnalysisBehaviours ==
    [kind : {"text"}, text : AnalysisTexts]
        \cup [kind : {"no_candidates", "no_text", "error"}, text : {""}]

\* lines 147-170: the interpretation request and the result
FA_Interpret ==
    /\ pc = "fa_interpret"
    /\ \E l \in AnalysisBehaviours :
        CASE l.kind = "text" ->
                /\ out' = Ok(ForecastResult(UserQuery, Strip(RemoveMarkup(l.text)),
                                            fa.df_len, fa.models))
                /\ pc' = "fa_done"
                /\ UNCHANGED fa
          [] l.kind = "no_candidates" -> Defer("no_candidates")
          [] l.kind = "no_text" ->
                IF Catches("interpret", "TypeError") THEN Defer("interpret")
                ELSE Escape("TypeError")
          [] l.kind = "error" ->
                IF Catches("interpret", "Exception") THEN Defer("interpret")
                ELSE Escape("Exception")
    /\ calls' = [calls EXCEPT !.generate = @ + 1]
    /\ UNCHANGED <<db, op, query, file_ctx, arg, llm, routed>>

SearchQueries == 4

\* Variant of the return after the web answer that is the deferred answer
\* whatever failed
FA_WebAnswerAlwaysDeferred ==
    /\ pc = "fa_web"
    /\ \E s \in {"results", "error"}, l \in AnalysisBehaviours :
        /\ fa' = [fa EXCEPT !.search = s]
        /\ out' = Ok(DeferredResult(UserQuery, economist_web_answer(l), fa.stage, fa.df_len))
    /\ calls' = [calls EXCEPT !.search = @ + SearchQueries, !.generate = @ + 1]
    /\ pc' = "fa_done"
    /\ UNCHANGED <<db, op, query, file_ctx, arg, llm, routed>>

\* economist_web_answer, and the return that follows it
FA_WebAnswer ==
    /\ pc = "fa_web"
    /\ \E s \in {"results", "error"}, l \in AnalysisBehaviours :
        LET analysis == economist_web_answer(l)
        IN  /\ fa' = [fa EXCEPT !.search = s]
            /\ out' = IF fa.stage \in {"no_candidates", "interpret"}
                      THEN Ok(ForecastResult(UserQuery, analysis, fa.df_len, fa.models))
                      ELSE Ok(DeferredResult(UserQuery, analysis, fa.stage, fa.df_len))
    /\ calls' = [calls EXCEPT !.search = @ + SearchQueries, !.generate = @ + 1]
    /\ pc' = "fa_done"
    /\ UNCHANGED <<db, op, query, file_ctx, arg, llm, routed>>

ForecastNext ==
    \/ FA_Resolve
    \/ FA_LookupIds
    \/ FA_Prepare
    \/ FA_Context
    \/ FA_RunModel
    \/ FA_Interpret
    \/ FA_WebAnswer

-----------------------------------------------------------------------------
(* agent.py: the /query handler *)

StatusOk == 200
StatusBadRequest == 400
StatusError == 500

Response(status, body) == Ok([status |-> status, body |-> body])

\* generate_ethiopia_coffee_response, generate_kenya_coffee_response and
\* generate_kenya_maize_response, the long texts cut to their first words
ShortcutPayload(shortcut) ==
    CASE shortcut = "ethiopia_coffee_forecast" ->
            [ type |-> "forecast",
              interpretation |-> "Ethiopia is the birthplace of Arabica coffee",
              forecast_display |-> "In 2025, export prices are forecasted to average 380 U.S. cents",
              confidence_level |-> "High",
              data_points_used |-> 12 ]
      [] shortcut = "kenya_coffee_forecast" ->
            [ type |-> "forecast",
              interpretation |-> "Kenya's high-altitude, specialty-grade Arabica coffee",
              forecast_display |-> "December 2025: Average auction price forecasted at US$395",
              confidence_level |-> "High",
              data_points_used |-> 15 ]
      [] shortcut = "kenya_maize_forecast" ->
            [ type |-> "forecast",
              commodity |-> "Maize",
              country |-> "Kenya",
              interpretation |-> "Kenya's maize market is the cornerstone of national food security",
              forecast_display |-> "**December 2025:** Average retail price forecasted",
              confidence_level |-> "High",
              data_points_used |-> 48 ]

\* Variant of the except clause that looks for "quota" in the error text as
\* it stands
ExceptResponseCaseSensitive(message) ==
    IF Contains(message, "429") \/ Contains(message, "RESOURCE_EXHAUSTED")
            \/ Contains(message, "quota")
    THEN Response(StatusOk,
            [ error |-> "No response found. The system is temporarily busy. Please try again later.",
              type |-> "quota_exceeded" ])
    ELSE Response(StatusError, [error |-> "Processing failed: " \o message])

\* the except clause of the handler
ExceptResponse(message) ==
    IF Contains(message, "429") \/ Contains(message, "RESOURCE_EXHAUSTED")
            \/ Contains(Lower(message), "quota")
    THEN Response(StatusOk,
            [ error |-> "No response found. The system is temporarily busy. Please try again later.",
              type |-> "quota_exceeded" ])
    ELSE Response(StatusError, [error |-> "Processing failed: " \o message])

\* lines 496-541: validation, the shortcuts, and the choice of the next step
Q_Receive ==
    /\ pc = "q_start"
    /\ LET shortcut == Shortcut(UserQuery)
       IN  IF UserQuery = "" /\ FileContext = ""
           THEN /\ out' = Response(StatusBadRequest, [error |-> "Query or file is required"])
                /\ pc' = "responded"
           ELSE IF shortcut # "none"
           THEN /\ out' = Response(StatusOk, ShortcutPayload(shortcut))
                /\ pc' = "responded"
           ELSE IF FileContext # "" /\ UserQuery = ""
           THEN pc' = "q_file" /\ UNCHANGED out
           ELSE pc' = "route" /\ UNCHANGED out
    /\ UNCHANGED <<db, op, query, file_ctx, arg, llm, routed, fa, calls>>

FileAnalysisDefault ==
    "I analyzed your document. Try asking about trade implications, price forecasts, or policy impacts."

\* lines 514-541: a file and no query
Q_FileAnalysis ==
    /\ pc = "q_file"
    /\ \E l \in AnalysisBehaviours :
        out' = Response(StatusOk,
                [ type |-> "file_analysis",
                  response |-> IF l.kind = "text" THEN Strip(l.text) ELSE FileAnalysisDefault,
                  followup |-> "Ask one of the suggested questions!" ])
    /\ calls' = [calls EXCEPT !.generate = @ + 1]
    /\ pc' = "responded"
    /\ UNCHANGED <<db, op, query, file_ctx, arg, llm, routed, fa>>

\* lines 544-580: the dispatch on the routed type
Q_Dispatch ==
    /\ pc = "routed"
    /\ IF routed.type = "trivial"
       THEN /\ out' = Response(StatusOk, [type |-> "trivial", response |-> routed.response])
            /\ pc' = "responded"
       ELSE /\ pc' = IF routed.type = "forecast" THEN "fa_start" ELSE "q_handler"
            /\ UNCHANGED out
    /\ UNCHANGED <<db, op, query, file_ctx, arg, llm, routed, fa, calls>>

\* str(e) of the exceptions a handler may raise
HandlerErrors ==
    {"429 Too Many Requests", "RESOURCE_EXHAUSTED", "Quota exceeded", "connection refused"}

\* lines 550-555 and 574-580: comparative_agent.run, ScenarioSubAgent and
\* ask_knowledgebase_with_context, by what they return
Q_Handler ==
    /\ pc = "q_handler"
    /\ \/ \E text \in AnalysisTexts :
            /\ out' = Response(StatusOk,
                CASE routed.type = "comparative" ->
                        [type |-> "comparative", query |-> UserQuery, response |-> Strip(text)]
                  [] routed.type = "scenario" ->
                        [type |-> "scenario", query |-> UserQuery, llm_analysis |-> Strip(text)]
                  [] OTHER -> [type |-> "rag", response |-> Strip(text)])
            /\ pc' = "responded"
       \/ \E e \in HandlerErrors :
            /\ out' = Raise(e)
            /\ pc' = "q_except"
    /\ UNCHANGED <<db, op, query, file_ctx, arg, llm, routed, fa, calls>>

\* lines 558-572: the result of ForecastingAgent.run becomes the response; an
\* exception of run goes on to the except clause of the handler
Q_ForecastReturn ==
    /\ pc = "fa_done"
    /\ op = "query"
    /\ IF out.exc = "none"
       THEN /\ out' = Response(StatusOk, out.val @@ [type |-> "forecast"])
            /\ pc' = "responded"
       ELSE /\ pc' = "q_except"
            /\ UNCHANGED out
    /\ UNCHANGED <<db, op, query, file_ctx, arg, llm, routed, fa, calls>>

\* lines 583-592: the except clause turns the exception into a response
Q_Except ==
    /\ pc = "q_except"
    /\ out' = ExceptResponse(out.exc)
    /\ pc' = "responded"
    /\ UNCHANGED <<db, op, query, file_ctx, arg, llm, routed, fa, calls>>

QueryNext ==
    \/ Q_Receive
    \/ Q_FileAnalysis
    \/ Q_Dispatch
    \/ Q_Handler
    \/ Q_ForecastReturn
    \/ Q_Except

-----------------------------------------------------------------------------
(* parse_timeframe, called on any text *)

ParseTimeframe ==
    /\ pc = "parse"
    /\ out' = Ok([periods |-> parse_timeframe(query)])
    /\ pc' = "returned"
    /\ UNCHANGED <<db, op, query, file_ctx, arg, llm, routed, fa, calls>>

-----------------------------------------------------------------------------
(* prepare_dual_data, called on any frame the store may return *)

PrepareDualData ==
    /\ pc = "prepare"
    /\ out' = prepare_dual_data(arg)
    /\ calls' = [calls EXCEPT !.prepare = @ + 1]
    /\ pc' = "returned"
    /\ UNCHANGED <<db, op, query, file_ctx, arg, llm, routed, fa>>

-----------------------------------------------------------------------------
(* run_model, called on any series *)

RunModel ==
    /\ pc = "run_model"
    /\ LET r == run_model(arg)
       IN  /\ out' = [exc |-> r.exc, val |-> r.val]
           /\ calls' = [calls EXCEPT !.model = @ + 1, !.fit = @ + r.fitted]
    /\ pc' = "returned"
    /\ UNCHANGED <<db, op, query, file_ctx, arg, llm, routed, fa>>

-----------------------------------------------------------------------------
(* forecast_dual_metrics, called on any prepared frame, its three runs taken
   in any order *)

\* The frames forecast_dual_metrics is given: unit prices on a line, volumes
\* in a cycle, and the revenue their product
DualFrames ==
    {[i \in 1..n |->
        [ds |-> i, unit_price |-> a + b * i, quantity_kg |-> 1 + (i % c),
         price |-> (a + b * i) * (1 + (i % c))]] :
        n \in {0, 1, PrimaryMinPoints - 1, MinRows}, a \in {0, 5}, b \in {-1, 2}, c \in {1, 3}}

\* the column each target is forecast from
TargetColumns == <<"unit_price", "price", "quantity_kg">>

DualArgs ==
    [kind : {"dual"}, df : DualFrames, values : {"float", "decimal"},
     periods : PeriodChoices, prophet : [1..Targets -> {"fits", "fit_error"}]]

\* df[["ds", column]].rename(columns={column: "y"}): a new frame of the target
TargetSeries(df, t, a) ==
    [kind |-> "series", len |-> Len(df),
     ys |-> [i \in 1..Len(df) |-> df[i][TargetColumns[t]]],
     values |-> a.values, periods |-> a.periods, prophet |-> a.prophet[t]]

\* Variant of a run that consumes the frame it is given, dropping its first
\* row
FrameAfterRunDropsRow(df) == IF df = <<>> THEN df ELSE Tail(df)

\* the prepared frame after a run: run_model is handed a frame of its own and
\* assigns to neither
FrameAfterRun(df) == df

\* float(np.mean(forecast)): nan, here 0/0, for an empty array
RECURSIVE RatSum(_, _)
RatSum(f, n) == IF n = 0 THEN Rat(0, 1) ELSE RatAdd(f[n], RatSum(f, n - 1))

Mean(forecast) ==
    IF Len(forecast) = 0 THEN [num |-> 0, den |-> 0]
    ELSE IF "num" \in DOMAIN forecast[1]
    THEN RatMul(RatSum(forecast, Len(forecast)), Rat(1, Len(forecast)))
    ELSE [mean_of |-> forecast[1].column]

\* lines 31-33: what is kept of the three runs
DualOfRuns(runs) ==
    LET Kept(r) == [forecast |-> Mean(r.forecast),
                    intervals |-> [lower |-> r.lower, upper |-> r.upper, mean |-> r.mean],
                    model |-> r.tag]
    IN  [ unit_price |-> Kept(runs[1]), total_revenue |-> Kept(runs[2]),
          volume_kg |-> [forecast |-> Mean(runs[3].forecast)] ]

\* forecast_dual_metrics(df, periods), as written: unit price, revenue, volume
forecast_dual_metrics(a) ==
    LET runs == [t \in 1..Targets |-> run_model(TargetSeries(a.df, t, a))]
    IN  IF \E t \in 1..Targets : runs[t].exc # "none" THEN Raise("TypeError")
        ELSE Ok(DualOfRuns([t \in 1..Targets |-> runs[t].val]))

\* one of the runs still to do, whichever it is
DualRun ==
    /\ pc = "dual_metrics"
    /\ \E t \in (1..Targets) \ DOMAIN fa.runs :
        LET r == run_model(TargetSeries(fa.df, t, arg))
            runs == fa.runs @@ (t :> r.val)
        IN  /\ fa' = [df |-> FrameAfterRun(fa.df), runs |-> runs]
            /\ calls' = [calls EXCEPT !.model = @ + 1, !.fit = @ + r.fitted]
            /\ IF r.exc # "none"
               THEN out' = Raise(r.exc) /\ pc' = "returned"
               ELSE IF DOMAIN runs = 1..Targets
               THEN out' = Ok(DualOfRuns(runs)) /\ pc' = "returned"
               ELSE UNCHANGED <<out, pc>>
    /\ UNCHANGED <<db, op, query, file_ctx, arg, llm, routed>>

-----------------------------------------------------------------------------
(* The store operations, called one after the other as time passes *)

MaxStoreCalls == 3

StoreCall ==
    /\ pc = "store"
    /\ db.calls < MaxStoreCalls
    /\ \E c \in StoreCalls :
        LET r == store_operation(c.f, c.name, c.does, db)
        IN  /\ op' = c.f
            /\ arg' = c
            /\ out' = [exc |-> r.exc, val |-> r.val]
            /\ db' = [in_use |-> db.in_use + r.acquired - r.released,
                      acquired |-> r.acquired, cache |-> r.cache, now |-> db.now,
                      calls |-> db.calls + 1]
    /\ UNCHANGED <<pc, query, file_ctx, llm, routed, fa, calls>>

\* half the lifetime of a cache entry passes
StoreTick ==
    /\ pc = "store"
    /\ db.now < 2 * ttl
    /\ db' = [db EXCEPT !.now = @ + ttl \div 2]
    /\ UNCHANGED <<pc, op, query, file_ctx, arg, llm, routed, fa, calls, out>>

StoreNext == StoreCall \/ StoreTick

-----------------------------------------------------------------------------
(* extract_entities, called on any query *)

\* Queries that name several countries and commodities
EntityQueries ==
    Queries \cup
        { "Ethiopia vs rwanda vs KENYA tea",
          "compare burundi and tanzania",
          "maize and coffee in Uganda and Tanzania",
          "uganda beans",
          "sugar, wheat and rice",
          "instead",
          "UGANDA UGANDA" }

ExtractEntities ==
    /\ pc = "extract"
    /\ out' = Ok(extract_entities(query))
    /\ pc' = "returned"
    /\ UNCHANGED <<db, op, query, file_ctx, arg, llm, routed, fa, calls>>

-----------------------------------------------------------------------------
(* Specifications *)

InitRouter ==
    /\ op = "route_and_reason"
    /\ pc = "route"
    /\ query \in Queries
    /\ file_ctx = ""
    /\ arg = NoArg
    /\ Blank

SpecRouter == InitRouter /\ [][RouteAndReason]_vars

InitForecast ==
    /\ op = "forecast_run"
    /\ pc = "fa_start"
    /\ query \in Queries \cup {""}
    /\ file_ctx \in {"", "report.pdf: maize exports"}
    /\ arg = NoArg
    /\ Blank

SpecForecast == InitForecast /\ [][ForecastNext]_vars

InitParse ==
    /\ op = "parse_timeframe"
    /\ pc = "parse"
    /\ query \in Queries
    /\ file_ctx = ""
    /\ arg = NoArg
    /\ Blank

SpecParse == InitParse /\ [][ParseTimeframe]_vars

InitPrepare ==
    /\ op = "prepare_dual_data"
    /\ pc = "prepare"
    /\ query = ""
    /\ file_ctx = ""
    /\ arg \in Frames \cup StoreFailures
    /\ Blank

SpecPrepare == InitPrepare /\ [][PrepareDualData]_vars

InitModel ==
    /\ op = "run_model"
    /\ pc = "run_model"
    /\ query = ""
    /\ file_ctx = ""
    /\ arg \in SeriesArgs
    /\ Blank

SpecModel == InitModel /\ [][RunModel]_vars

InitDual ==
    /\ op = "forecast_dual_metrics"
    /\ pc = "dual_metrics"
    /\ query = ""
    /\ file_ctx = ""
    /\ arg \in DualArgs
    /\ llm = NoLLM
    /\ routed = NoDecision
    /\ fa = [df |-> arg.df, runs |-> <<>>]
    /\ calls = NoCalls
    /\ out = NoOut
    /\ db = NoStore

SpecDual == InitDual /\ [][DualRun]_vars

InitStore ==
    /\ op = "db_utils"
    /\ pc = "store"
    /\ query = ""
    /\ file_ctx = ""
    /\ arg = NoArg
    /\ Blank

SpecStore == InitStore /\ [][StoreNext]_vars

InitEntities ==
    /\ op = "extract_entities"
    /\ pc = "extract"
    /\ query \in EntityQueries
    /\ file_ctx = ""
    /\ arg = NoArg
    /\ Blank

SpecEntities == InitEntities /\ [][ExtractEntities]_vars

\* What a request may carry as its query
RequestQueries == Queries \cup {"", "   "}

InitQuery ==
    /\ op = "query"
    /\ pc = "q_start"
    /\ query \in RequestQueries
    /\ file_ctx \in FileContexts
    /\ arg = NoArg
    /\ Blank

Next == RouteAndReason \/ QueryNext \/ ForecastNext

\* /query on any request, and route_and_reason called directly on any query
Spec == (InitQuery \/ InitRouter) /\ [][Next]_vars

-----------------------------------------------------------------------------
(* Properties of the router *)

\* the operation has returned to its caller
Returned == pc = "returned"

\* /query has sent its response
Responded == pc = "responded"

\* The shortcut each request's query matches, as the operation sees the query
ShortcutOf ==
    [o \in {"query", "route_and_reason"} |->
        [q \in RequestQueries |-> Shortcut(IF o = "query" THEN Strip(q) ELSE q)]]

\* C1: for a query that matches a hardcoded shortcut (Ethiopia coffee, Kenya
\* coffee, Kenya maize), route_and_reason returns the shortcut decision and
\* /query responds with the shortcut payload, and at no point of either has a
\* classification request been issued, whatever the service would answer.
C1_ShortcutNeverClassifies ==
    LET shortcut == ShortcutOf[op][query]
    IN  shortcut # "none" =>
            /\ calls.classify = 0
            /\ llm = NoLLM
            /\ Returned => out = Ok(Decision(shortcut, ""))
            /\ Responded => out = Response(StatusOk, ShortcutPayload(shortcut))

C1_Witness ==
    /\ op = "route_and_reason"
    /\ Returned
    /\ query = "Kenya maize next 2 years"
    /\ out.val.type = "kenya_maize_forecast"
    /\ calls.classify = 0

RouteTypes ==
    { "ethiopia_coffee_forecast", "kenya_coffee_forecast", "kenya_maize_forecast",
      "comparative", "forecast", "scenario", "rag", "trivial" }

\* C2: for every query and every behaviour of the Text Generation Service
\* (tagged text, untagged text, no candidates, an error), route_and_reason
\* returns a decision whose type is one of the eight route types; it raises
\* no exception to its caller.
C2_RouterAlwaysDecides ==
    (op = "route_and_reason" /\ Returned) =>
        /\ out.exc = "none"
        /\ out.val.type \in RouteTypes

C2_Witness ==
    /\ op = "route_and_reason"
    /\ Returned
    /\ llm.kind = "error"
    /\ out.exc = "none"
    /\ out.val.type = "rag"

\* the keyword set of the degradation, as the specification fixes it
DomainKeywords ==
    { "export", "import", "price", "trade", "coffee", "maize", "tanzania",
      "kenya", "forecast", "compare", "supply", "gap", "collision", "arbitrage",
      "logistics", "rainfall", "harvest", "farm gate", "simulate", "policy",
      "shock" }

ShortAndOffDomain(q) ==
    /\ TokenCount(q) <= 6
    /\ \A kw \in DomainKeywords : ~Contains(Lower(q), kw)

\* C7: when the classification request fails with a service error,
\* route_and_reason returns trivial with the fixed greeting if and only if the
\* query has at most 6 whitespace-delimited tokens and contains none of the
\* domain keywords, and rag in every other case; "hi" gives the greeting and
\* "what about the maize export tariff policy for Kenya" gives rag.
C7_KeywordDegradation ==
    (op = "route_and_reason" /\ Returned /\ llm.kind = "error") =>
        /\ out.exc = "none"
        /\ out.val = IF ShortAndOffDomain(query)
                     THEN Decision("trivial", Greeting)
                     ELSE Decision("rag", "")
        /\ query = "hi" => out.val = Decision("trivial", Greeting)
        /\ query = "what about the maize export tariff policy for Kenya"
                => out.val.type = "rag"

C7_Witness ==
    /\ op = "route_and_reason"
    /\ Returned
    /\ llm.kind = "error"
    /\ query = "please tell me what you think"
    /\ out.val = Decision("trivial", Greeting)

\* the intent of a text by the tag it begins with
IntentOf(text) ==
    IF StartsWith(text, "[COMPARATIVE]") THEN Decision("comparative", "")
    ELSE IF StartsWith(text, "[FORECAST]") THEN Decision("forecast", "")
    ELSE IF StartsWith(text, "[SCENARIO]") THEN Decision("scenario", "")
    ELSE IF StartsWith(text, "[RAG]") THEN Decision("rag", "")
    ELSE Decision("trivial", text)

\* C8 as stated: when the classification request returns text, a text
\* beginning with [COMPARATIVE], [FORECAST], [SCENARIO] or [RAG] gives that
\* intent, and a text beginning with none of them (the empty text included)
\* gives trivial with the full returned text as the response.
C8_TagParseOfReturnedText ==
    (op = "route_and_reason" /\ Returned /\ llm.kind = "text") =>
        out = Ok(IntentOf(llm.text))

\* C8, amended: the tag is looked for at the beginning of the returned text
\* with its leading and trailing whitespace removed, and the response of
\* trivial is that stripped text.
C8_TagParseOfStrippedText ==
    (op = "route_and_reason" /\ Returned /\ llm.kind = "text") =>
        out = Ok(IntentOf(Strip(llm.text)))

C8_Witness ==
    /\ op = "route_and_reason"
    /\ Returned
    /\ llm = [kind |-> "text", text |-> " [RAG] lookup\n"]
    /\ out.val.type = "rag"

-----------------------------------------------------------------------------
(* Properties of parse_timeframe and of the forecast periods *)

\* the periods the phrase "next N (year|years|month|months)" at position i of
\* t asks for, -1 when no such phrase stands there
PhraseAt(t, i) ==
    LET num == DigitRun(t, i + 5)
        unit == From(t, i + 6 + Len(num))
    IN  IF /\ Char(t, i) = "n" /\ Char(t, i + 1) = "e" /\ Char(t, i + 2) = "x"
           /\ Char(t, i + 3) = "t" /\ Char(t, i + 4) = " "
           /\ num # ""
           /\ Char(t, i + 5 + Len(num)) = " "
           /\ (StartsWith(unit, "month") \/ StartsWith(unit, "year"))
        THEN IF StartsWith(unit, "month") THEN ParseInt(num) ELSE 12 * ParseInt(num)
        ELSE -1

\* the periods a text asks for: those of its first phrase, 3 without one
RequestedPeriods(text) ==
    LET t == Lower(text)
        at == {i \in 1..Len(t) : PhraseAt(t, i) # -1}
    IN  IF at = {} THEN 3
        ELSE PhraseAt(t, CHOOSE i \in at : \A j \in at : i <= j)

\* C6: parse_timeframe returns N for any text containing "next N month(s)",
\* 12*N for any text containing "next N year(s)", in any letter case, and 3
\* for a text with no such phrase; "next 2 years" gives 24, "next 3 months"
\* gives 3 and "tomorrow" gives 3.
C6_ParsesContainedPhrase ==
    (op = "parse_timeframe" /\ Returned) =>
        out = Ok([periods |-> RequestedPeriods(query)])

\* C5: the number of periods ForecastingAgent.run passes to the Model Runner
\* is the one the query asks for: N for "next N month(s)", 12*N for
\* "next N year(s)", 3 when the query has no such phrase.
C5_PeriodsFromQuery ==
    (pc = "fa_model" /\ fa.models = <<>>) =>
        fa.periods = RequestedPeriods(query)

-----------------------------------------------------------------------------
(* Properties of ForecastingAgent.run *)

RunReturned == op = "forecast_run" /\ pc = "fa_done"

Deferred == "source" \in DOMAIN out.val /\ out.val.source = "web_fallback"

Numeric == "dual_forecast" \in DOMAIN out.val

\* C3: for a non-empty query, whatever collaborator fails (the ID lookup,
\* the data read and preparation, any of the three model runs, the
\* interpretation request, the web search), run returns a numeric forecast
\* or a DEFERRED web-fallback result; no exception reaches the caller.
C3_RunAlwaysReturns ==
    (RunReturned /\ query # "") =>
        /\ out.exc = "none"
        /\ out.val.type = "forecast"
        /\ Numeric \/ Deferred

C3_Witness ==
    /\ RunReturned
    /\ fa.stage = "model"
    /\ Len(fa.models) = Targets - 1
    /\ fa.search = "error"
    /\ out.exc = "none"
    /\ Deferred

\* C4: every DEFERRED result of run, whichever step deferred (unresolved
\* commodity or country, ID lookup, data preparation, the forecasts of step
\* 5), has confidence_level "Medium" and data_points_used 0.
C4_DeferredMediumZero ==
    (RunReturned /\ out.exc = "none" /\ Deferred) =>
        /\ out.val.confidence_level = "Medium"
        /\ out.val.data_points_used = 0

\* C9: the confidence_level of a successful forecast takes the method tags
\* into account: a forecast with a target produced by the linear fallback is
\* not reported "High" on the series length alone.
C9_FallbackNotHigh ==
    (RunReturned /\ out.exc = "none" /\ Numeric
        /\ \E i \in 1..Len(fa.models) : fa.models[i] = "linear_fallback") =>
            out.val.confidence_level # "High"

\* C10: in every successful result confidence_level is "High" exactly when
\* the cleaned series has at least 24 rows and "Medium" otherwise, and
\* data_points_used is the number of rows of the cleaned series.
C10_ConfidenceBySeriesLength ==
    (RunReturned /\ out.exc = "none" /\ Numeric) =>
        /\ out.val.confidence_level = (IF fa.df_len >= 24 THEN "High" ELSE "Medium")
        /\ out.val.data_points_used = fa.df_len

C10_Witness ==
    /\ RunReturned
    /\ Numeric
    /\ fa.df_len = 24
    /\ out.val.confidence_level = "High"
    /\ out.val.data_points_used = 24

-----------------------------------------------------------------------------
(* Properties of prepare_dual_data *)

PrepareReturned == op = "prepare_dual_data" /\ pc = "returned"

\* the rows of a frame with a date, a price and a quantity that is not zero
ValidRows(f) == f.rows - f.zero_quantity - f.null_cells

\* C11: prepare_dual_data fails, and returns no series, when the store
\* returns zero rows, when the date, quantity or price column is absent, or
\* when fewer than 8 valid rows remain after cleaning; a series it returns
\* has at least 8 rows and holds every valid row of the frame.
C11_PrepareFailsOrKeepsAll ==
    (PrepareReturned /\ arg.kind = "frame") =>
        /\ (\/ arg.rows = 0
            \/ ~arg.has_date \/ ~arg.has_quantity \/ ~arg.has_price
            \/ ValidRows(arg) < 8) => out.exc # "none"
        /\ out.exc = "none" => (out.val.len >= 8 /\ out.val.len = ValidRows(arg))

C11_Witness ==
    /\ PrepareReturned
    /\ arg.kind = "frame"
    /\ arg.zero_quantity = 1
    /\ arg.null_cells = 1
    /\ out.exc = "none"
    /\ out.val.len = arg.rows - 2

\* the ordered policy on the combined unit-name/unit-symbol string, in any
\* letter case
OrderedPolicy(name, symbol) ==
    LET combined == Lower(name \o " " \o symbol)
    IN  IF Contains(combined, "ton") \/ Lower(symbol) = "t"
        THEN [kg_multiplier |-> 1000, display_unit |-> "tonnes"]
        ELSE IF Contains(combined, "kg") THEN [kg_multiplier |-> 1, display_unit |-> "kg"]
        ELSE IF Contains(combined, "quintal")
        THEN [kg_multiplier |-> 100, display_unit |-> "quintals"]
        ELSE [kg_multiplier |-> 1000, display_unit |-> "tonnes"]

\* C12: for every unit name and unit symbol read from the store, in any
\* letter case, empty and missing values included, the multiplier and the
\* display unit prepare_dual_data chooses are those of the ordered policy on
\* the combined name/symbol string: "ton" or symbol "t" gives (1000,
\* tonnes), else "kg" gives (1, kg), else "quintal" gives (100, quintals),
\* else (1000, tonnes).
C12_UnitPolicyOnReadUnits ==
    (PrepareReturned /\ out.exc = "none") =>
        [kg_multiplier |-> out.val.unit.kg_multiplier,
         display_unit |-> out.val.unit.display_unit]
            = OrderedPolicy(arg.unit_name, arg.unit_symbol)

-----------------------------------------------------------------------------
(* Properties of run_model *)

ModelReturned == op = "run_model" /\ pc = "returned"

\* C13: run_model never raises: for every input series (empty, one point,
\* fewer than 4 points, or longer) and every failure of the seasonal model
\* it returns a forecast array, an interval record and a method tag.
C13_RunModelNeverRaises ==
    ModelReturned =>
        /\ out.exc = "none"
        /\ out.val.tag \in {"prophet", "linear_fallback"}

\* C14: on a series of fewer than 4 points, the empty series included, the
\* seasonal model is never fitted, and the method tag run_model returns is
\* the linear-fallback tag.
C14_ShortSeriesNeverFitted ==
    (ModelReturned /\ arg.len < 4) =>
        /\ calls.fit = 0
        /\ out.exc = "none" => out.val.tag = "linear_fallback"

C14_Witness ==
    /\ ModelReturned
    /\ arg.len = 3
    /\ arg.prophet = "fits"
    /\ calls.fit = 0
    /\ out.exc = "none"
    /\ out.val.tag = "linear_fallback"

\* C15: in every result of run_model, under either strategy, the forecast
\* array and the lower, upper and mean interval arrays have the length of
\* the requested number of periods; and whenever the primary strategy
\* succeeds the method tag is the seasonal-model tag.
C15_LengthsEqualPeriods ==
    (ModelReturned /\ out.exc = "none") =>
        /\ out.val.forecast_len = arg.periods
        /\ out.val.lower_len = arg.periods
        /\ out.val.upper_len = arg.periods
        /\ out.val.mean_len = arg.periods
        /\ (arg.len >= 4 /\ arg.prophet = "fits") => out.val.tag = "prophet"

C15_Witness ==
    /\ ModelReturned
    /\ arg.len = 3
    /\ arg.values = "float"
    /\ arg.periods = 12
    /\ out.exc = "none"
    /\ out.val.tag = "linear_fallback"
    /\ out.val.forecast_len = 12

-----------------------------------------------------------------------------
(* Properties of the /query handler *)

Body == out.val.body

\* the response carries a result of a processed request, not an error
Processed == op = "query" /\ Responded /\ "error" \notin DOMAIN Body

\* C16: every result object /query returns for a processed request (shortcut
\* payload, trivial, comparative, forecast, scenario, rag, file_analysis) has
\* a type field and a non-empty final_output string.
C16_ResultHasFinalOutput ==
    Processed =>
        /\ "type" \in DOMAIN Body
        /\ "final_output" \in DOMAIN Body
        /\ Body.final_output # ""

QuotaMarked(text) ==
    \/ Contains(text, "429")
    \/ Contains(text, "RESOURCE_EXHAUSTED")
    \/ Contains(Lower(text), "quota")

\* C17: an exception that escapes request handling in /query is turned into
\* a response and never propagated: when its text contains "429",
\* "RESOURCE_EXHAUSTED" or, in any letter case, "quota", the response is the
\* quota_exceeded "temporarily busy" message, and for every other error it
\* is a "Processing failed" message, which is a different one.
C17_ExceptionBecomesResponse ==
    [][pc = "q_except" =>
        /\ pc' = "responded"
        /\ out'.exc = "none"
        /\ IF QuotaMarked(out.exc)
           THEN /\ "type" \in DOMAIN out'.val.body
                /\ out'.val.body.type = "quota_exceeded"
                /\ Contains(out'.val.body.error, "temporarily busy")
           ELSE /\ "type" \notin DOMAIN out'.val.body
                /\ StartsWith(out'.val.body.error, "Processing failed")
                /\ ~Contains(out'.val.body.error, "temporarily busy")]_vars

C17_Witness ==
    /\ op = "query"
    /\ Responded
    /\ routed.type = "rag"
    /\ "type" \in DOMAIN Body
    /\ Body.type = "quota_exceeded"

-----------------------------------------------------------------------------
(* Properties of extract_entities *)

CountryGazetteer == <<"kenya", "tanzania", "uganda", "rwanda", "ethiopia", "burundi">>
CommodityGazetteer == <<"coffee", "maize", "tea", "beans", "wheat", "rice", "sugar">>

\* the positions of the gazetteer entries that occur in q, in any letter case
OccurringAt(gazetteer, q) ==
    {i \in 1..Len(gazetteer) : Contains(Lower(q), gazetteer[i])}

\* the k-th smallest element of a set of numbers
Nth(S, k) == CHOOSE i \in S : Cardinality({j \in S : j < i}) = k - 1

\* C18: extract_entities never fails; it returns the gazetteer countries
\* that occur in the query as case-insensitive substrings, in gazetteer
\* order, capped at the first two, and as commodity the first gazetteer
\* commodity that occurs in the query, "coffee" when none does; an empty
\* country list when no country occurs.
C18_EntitiesByGazetteerOrder ==
    (op = "extract_entities" /\ Returned) =>
        LET at == OccurringAt(CountryGazetteer, query)
            goods == OccurringAt(CommodityGazetteer, query)
            n == IF Cardinality(at) <= 2 THEN Cardinality(at) ELSE 2
        IN  /\ out.exc = "none"
            /\ Len(out.val.countries) = n
            /\ \A k \in 1..n :
                    Lower(out.val.countries[k]) = CountryGazetteer[Nth(at, k)]
            /\ out.val.commodity =
                    (IF goods = {} THEN "coffee" ELSE CommodityGazetteer[Nth(goods, 1)])

C18_Witness ==
    /\ op = "extract_entities"
    /\ Returned
    /\ query = "Ethiopia vs rwanda vs KENYA tea"
    /\ out.val = [countries |-> <<"Kenya", "Rwanda">>, commodity |-> "tea"]

-----------------------------------------------------------------------------
(* Order of the steps *)

\* the store reads and model runs made so far
PipelineCalls == <<calls.lookup, calls.prepare, calls.rag, calls.model>>

\* a step of run has failed, or commodity or country was not resolved
Failed == fa.stage # "none"

RunInOrder ==
    /\ calls.lookup <= 2
    /\ calls.prepare <= 1
    /\ calls.model <= 3
    /\ calls.lookup > 0 => (fa.commodity # "" /\ fa.country # "")
    /\ calls.prepare > 0 => (calls.lookup = 2 /\ fa.stage # "lookup")
    /\ calls.model > 0 => (calls.prepare = 1 /\ fa.df_len >= 8 /\ fa.stage # "prepare")

\* C19: within one ForecastingAgent.run the steps are sequential and never
\* retried: the two ID lookups only after commodity and country were
\* resolved, prepare_dual_data only after both lookups succeeded, run_model
\* (once per target) only after prepare_dual_data succeeded, each at most
\* once; after the first failure no store read and no model run happens,
\* only the web-fallback answer is produced.
C19_StepsSequentialNoRetry ==
    /\ [](op = "forecast_run" => RunInOrder)
    /\ [][(op = "forecast_run" /\ Failed) =>
            /\ PipelineCalls' = PipelineCalls
            /\ pc' = "fa_done"
            /\ calls'.search > calls.search]_vars

C19_Witness ==
    /\ RunReturned
    /\ fa.stage = "prepare"
    /\ calls.lookup = 2
    /\ calls.prepare = 1
    /\ calls.model = 0
    /\ calls.search = 4
    /\ Deferred

\* C20: in route_and_reason the three tiers run in sequence: the
\* classification request is issued at most once per query, and only when
\* every shortcut predicate was false; the keyword heuristic runs only after
\* that request (or the reading of its answer) failed, and never when the
\* request returned text.
C20_TiersInSequence ==
    (op = "route_and_reason") =>
        /\ calls.classify <= 1
        /\ calls.classify = 1 => ShortcutOf[op][query] = "none"
        /\ calls.heuristic <= calls.classify
        /\ calls.heuristic = 1 => llm.kind \in {"error", "no_text"}
        /\ llm.kind \in {"text", "no_candidates"} => calls.heuristic = 0

C20_Witness ==
    /\ op = "route_and_reason"
    /\ Returned
    /\ llm.kind = "error"
    /\ calls.classify = 1
    /\ calls.heuristic = 1
    /\ ShortcutOf[op][query] = "none"

-----------------------------------------------------------------------------
(* Properties of the forecast result *)

TargetNames == <<"unit_price", "total_revenue", "volume_kg">>

\* C21: in a successful forecast, dual_forecast holds for each of the three
\* targets (unit_price, total_revenue, volume_kg) the mean of the target's
\* period-forecast array together with the target's interval arrays and its
\* method tag.
C21_DualForecastKeepsAll ==
    (RunReturned /\ out.exc = "none" /\ Numeric) =>
        \A i \in 1..3 :
            LET kept == out.val.dual_forecast[TargetNames[i]]
            IN  /\ DOMAIN kept = {"forecast", "intervals", "model"}
                /\ kept.model = fa.models[i]

-----------------------------------------------------------------------------
(* Properties of the linear fallback *)

FallbackReturned ==
    /\ ModelReturned
    /\ out.exc = "none"
    /\ out.val.tag = "linear_fallback"

Zero == Rat(0, 1)

\* C22 as stated: every linear-fallback result has lower[i] = 0.9 * mean[i] and
\* upper[i] = 1.1 * mean[i], and the bounds bracket the mean,
\* lower[i] <= mean[i] <= upper[i], for every period and every series, the
\* series whose extrapolation becomes negative included.
C22_BoundsBracketMean ==
    FallbackReturned =>
        \A i \in DOMAIN out.val.mean :
            /\ out.val.lower[i] = RatMul(Rat(9, 10), out.val.mean[i])
            /\ out.val.upper[i] = RatMul(Rat(11, 10), out.val.mean[i])
            /\ RatLeq(out.val.lower[i], out.val.mean[i])
            /\ RatLeq(out.val.mean[i], out.val.upper[i])

\* C22, amended: every linear-fallback result has lower[i] = 0.9 * mean[i] and
\* upper[i] = 1.1 * mean[i]; the bounds bracket the mean where mean[i] >= 0,
\* and where mean[i] < 0 they are reversed, upper[i] < mean[i] < lower[i].
C22_BoundsScaleMean ==
    FallbackReturned =>
        \A i \in DOMAIN out.val.mean :
            /\ out.val.lower[i] = RatMul(Rat(9, 10), out.val.mean[i])
            /\ out.val.upper[i] = RatMul(Rat(11, 10), out.val.mean[i])
            /\ IF RatLeq(Zero, out.val.mean[i])
               THEN /\ RatLeq(out.val.lower[i], out.val.mean[i])
                    /\ RatLeq(out.val.mean[i], out.val.upper[i])
               ELSE /\ ~RatLeq(out.val.mean[i], out.val.upper[i])
                    /\ ~RatLeq(out.val.lower[i], out.val.mean[i])

\* a falling series of three points extrapolated below zero over three periods
C22_Witness ==
    /\ FallbackReturned
    /\ arg.ys = <<3, 1, -1>>
    /\ arg.periods = 3
    /\ out.val.mean = <<Rat(-3, 1), Rat(-5, 1), Rat(-7, 1)>>
    /\ out.val.lower[1] = Rat(-27, 10)
    /\ out.val.upper[1] = Rat(-33, 10)

\* the line through the first two forecasts, at index x
LineAt(f, n, x) ==
    RatAdd(f[1], RatMul(Rat(x - n, 1), RatAdd(f[2], RatMul(Rat(-1, 1), f[1]))))

\* the sum of w[i] * (ys[i] - line(i - 1)) over the points of the series
RECURSIVE Residuals(_, _, _, _)
Residuals(f, ys, w, i) ==
    IF i = 0 THEN Zero
    ELSE RatAdd(Residuals(f, ys, w, i - 1),
                RatMul(Rat(w[i], 1),
                       RatAdd(Rat(ys[i], 1),
                              RatMul(Rat(-1, 1), LineAt(f, Len(ys), i - 1)))))

\* C23: the fallback forecast of a series of no point is 0.0 in every period,
\* of a series of one point that point's value in every period, and of a
\* series of n >= 2 points the least-squares line over the indices 0..n-1
\* (the line whose residuals sum to zero, plainly and weighted by the index)
\* evaluated at n..n+periods-1; for an exactly linear series a + b*i the k-th
\* forecast is a + b*(n+k).
C23_FallbackValues ==
    FallbackReturned =>
        LET n  == Len(arg.ys)
            f  == out.val.forecast
        IN  /\ n = 0 => \A k \in DOMAIN f : f[k] = Zero
            /\ n = 1 => \A k \in DOMAIN f : f[k] = Rat(arg.ys[1], 1)
            /\ (n >= 2 /\ Len(f) >= 2) =>
                /\ \A k \in DOMAIN f : f[k] = LineAt(f, n, n + k - 1)
                /\ Residuals(f, arg.ys, [i \in 1..n |-> 1], n) = Zero
                /\ Residuals(f, arg.ys, [i \in 1..n |-> i - 1], n) = Zero
            /\ (n >= 2 /\ \A i \in 1..n : arg.ys[i] = arg.ys[1] + (arg.ys[2] - arg.ys[1]) * (i - 1)) =>
                \A k \in DOMAIN f :
                    f[k] = Rat(arg.ys[1] + (arg.ys[2] - arg.ys[1]) * (n + k - 1), 1)

\* a series that is not a line: 2, 0, 0, -1 gives the line 1.6 - 0.9 x and
\* the forecasts -2, -2.9 and -3.8
C23_Witness ==
    /\ FallbackReturned
    /\ arg.ys = <<2, 0, 0, -1>>
    /\ arg.periods = 3
    /\ out.val.forecast = <<Rat(-2, 1), Rat(-29, 10), Rat(-19, 5)>>

-----------------------------------------------------------------------------
(* Properties of the prepared series *)

\* C24: every series prepare_dual_data returns is ordered by non-decreasing
\* timestamp, has no row with a null and none with quantity_kg = 0, and in
\* every row quantity_kg is the quantity read times the multiplier and
\* unit_price * quantity_kg is the price.
C24_SeriesCleanSortedDerived ==
    (PrepareReturned /\ out.exc = "none") =>
        LET series == out.val.series
            kg_multiplier == out.val.unit.kg_multiplier
        IN  /\ \A i \in 1..(Len(series) - 1) : series[i].ds <= series[i + 1].ds
            /\ \A i \in DOMAIN series :
                LET row == series[i]
                    read == Data(arg)[row.index]
                IN  /\ ~row.null
                    /\ read.null = "none"
                    /\ row.quantity_kg # 0
                    /\ row.quantity_kg = read.quantity * kg_multiplier
                    /\ row.price = read.price
                    /\ RatMul(row.unit_price, Rat(row.quantity_kg, 1)) = Rat(row.price, 1)

\* a frame of falling dates in quintals, with a zero quantity and a null cell
\* dropped
C24_Witness ==
    /\ PrepareReturned
    /\ out.exc = "none"
    /\ arg.order = "descending"
    /\ arg.zero_quantity = 1
    /\ arg.null_cells = 1
    /\ out.val.unit.kg_multiplier = QuintalMultiplier
    /\ Len(out.val.series) = arg.rows - 2
    /\ out.val.series[1].ds = 0
    /\ out.val.series[1].index > out.val.series[Len(out.val.series)].index
    /\ \E i \in DOMAIN out.val.series : out.val.series[i].unit_price = Rat(3, 10)

-----------------------------------------------------------------------------
(* Properties of the three runs of a forecast *)

DualReturned == op = "forecast_dual_metrics" /\ pc = "returned"

-----------------------------------------------------------------------------
(* Properties of the resolution of the commodity *)

\* the alias key k is what the query names: k occurs in it, and no alias key
\* that occurs in it is longer
Mentions(q, k) ==
    /\ Contains(q, k)
    /\ \A j \in 1..Len(ALIAS_KEYS) : Contains(q, ALIAS_KEYS[j]) => Len(ALIAS_KEYS[j]) <= Len(k)

\* C26: for every alias key k, a forecast query that names the commodity k
\* (and a supported country) is resolved to ALIAS_MAP[k]; "green maize" to
\* "green maize", "maize flour" to "Maize Flour".
C26_AliasResolvesToItsEntry ==
    (op = "forecast_run" /\ pc = "fa_lookup") =>
        LET q == Lower(UserQuery)
        IN  \A i \in 1..Len(ALIAS_KEYS) :
                Mentions(q, ALIAS_KEYS[i]) => fa.commodity = ALIAS_MAP[ALIAS_KEYS[i]]

-----------------------------------------------------------------------------
(* Properties of what run returns *)

\* the resolution, both lookups, the preparation and the three runs succeeded
AllSucceeded ==
    /\ fa.stage \notin {"resolve", "lookup", "prepare", "model"}
    /\ calls.lookup = 2
    /\ calls.prepare = 1
    /\ Len(fa.models) = Targets

\* C27: for a non-empty query, the result of run holds dual_forecast exactly
\* when the resolution, both lookups, prepare_dual_data and the three model
\* runs all succeeded; every other result has source = "web_fallback" and no
\* dual_forecast; a failed interpretation request leaves the numeric forecast
\* in the result.
C27_NumericIffAllSucceeded ==
    (RunReturned /\ query # "" /\ out.exc = "none") =>
        /\ Numeric <=> AllSucceeded
        /\ ~Numeric => Deferred
        /\ Numeric => ~Deferred
        /\ fa.stage \in {"no_candidates", "interpret"} => Numeric

\* the interpretation request failed after three runs, and the web answer
\* took its place
C27_Witness ==
    /\ RunReturned
    /\ query # ""
    /\ fa.stage = "interpret"
    /\ fa.models = <<"prophet", "linear_fallback", "prophet">>
    /\ calls.search = SearchQueries
    /\ Numeric

-----------------------------------------------------------------------------
(* Properties of the store operations *)

\* C28: every store operation of db_utils (the three ID lookups,
\* get_trade_data_from_db, query_rag_embeddings_semantic) takes at most one
\* connection from the pool and has given it back when it is left, however it
\* is left: with a value, with not-found, with a query exception, or because
\* the cursor could not be created.
C28_ConnectionGivenBack ==
    (pc = "store" /\ op \in StoreOps) =>
        /\ db.acquired <= 1
        /\ db.in_use = 0

\* the keys a cache may hold, each with the key of the same name in lower case
KeysInLowerCase ==
    [k \in {KeyPrefix(f) \o n : f \in Lookups, n \in StoreNames \cup {LowerName[m] : m \in StoreNames}}
        |-> Lower(k)]

\* the entry k of the cache was written for the name, whatever its case, by
\* the lookup f
EntryOf(k, f, name) == KeysInLowerCase[k] = KeysInLowerCase[KeyPrefix(f) \o name]

\* C29: the ID cache is written only by a lookup that succeeded, and then
\* with the id it returns; a lookup that fails raises and leaves the cache as
\* it was; while an entry written for a name has not expired, a lookup of
\* that name in any case returns the cached id and takes no connection.
C29_CacheWrittenOnSuccessOnly ==
    [][db'.calls > db.calls =>
        /\ db'.cache # db.cache =>
            /\ op' \in Lookups
            /\ out'.exc = "none"
            /\ \E k \in DOMAIN db'.cache :
                /\ EntryOf(k, op', arg'.name)
                /\ db'.cache[k] = [id |-> out'.val, expires |-> db.now + ttl]
                /\ \A j \in DOMAIN db'.cache \ {k} :
                    j \in DOMAIN db.cache /\ db'.cache[j] = db.cache[j]
        /\ out'.exc # "none" => db'.cache = db.cache
        /\ op' \in Lookups =>
            \A k \in DOMAIN db.cache :
                (EntryOf(k, op', arg'.name) /\ db.now < db.cache[k].expires) =>
                    /\ out'.exc = "none"
                    /\ out'.val = db.cache[k].id
                    /\ db'.acquired = 0
                    /\ db'.cache = db.cache]_vars

\* "KENYA" is answered from the entry written for "Kenya" half a lifetime
\* ago, while the connection would have given no cursor
C29_Witness ==
    /\ pc = "store"
    /\ op = "get_country_id_by_name"
    /\ arg.name = "KENYA"
    /\ arg.does = "cursor_error"
    /\ DOMAIN db.cache = {"country_kenya"}
    /\ db.cache["country_kenya"].expires = ttl
    /\ db.now = ttl \div 2
    /\ db.acquired = 0
    /\ out = Ok(5)

-----------------------------------------------------------------------------
(* Properties of /query on a request without a query *)

\* the query and the file context as /query sees them
StrippedQuery == [q \in RequestQueries |-> Strip(q)]
StrippedFile == [f \in FileContexts |-> Strip(f)]

\* C30: /query with the query and the file context both empty answers
\* 'Query or file is required' with status 400 and calls no service; with the
\* query empty and a file context it always answers a file_analysis whose
\* response is not empty, also when the generation request fails or returns
\* nothing, and calls neither the router nor a handler.
C30_EmptyQueryValidatedOrFileAnalysed ==
    (op = "query" /\ Responded /\ StrippedQuery[query] = "") =>
        IF StrippedFile[file_ctx] = ""
        THEN /\ out = Response(StatusBadRequest, [error |-> "Query or file is required"])
             /\ calls = NoCalls
        ELSE /\ out.exc = "none"
             /\ out.val.status = StatusOk
             /\ "type" \in DOMAIN Body /\ Body.type = "file_analysis"
             /\ "response" \in DOMAIN Body /\ Body.response # ""
             /\ calls = [NoCalls EXCEPT !.generate = 1]
             /\ routed = NoDecision

=============================================================================
